---- MODULE Spec2Model ----
(***************************************************************************)
(* The smbfs file operations of the Midnight Commander VFS                 *)
(* (src/vfs/smbfs/file.c): smbfs_file_open, smbfs_file_read,               *)
(* smbfs_file_close, smbfs_file_stat, smbfs_file_write, smbfs_file_lseek.  *)
(*                                                                         *)
(* The state is the VFS file handlers (vfs_file_handler_t: pos, data), the *)
(* heap of smbfs_file_handler_data_t objects that data points to, the      *)
(* ambient errno, and the protocol client (libsmbclient) behind the        *)
(* smbc_* primitives: a table of numeric handles with their offsets and    *)
(* the remote files' bytes.                                                *)
(***************************************************************************)
EXTENDS Integers, Sequences, FiniteSets

\* ------------------------------------------------------------------ bounds
\* File handlers (vfs_file_handler_t objects) the VFS layer owns.
NumHandles == 2
\* Numeric protocol handles the client can hand out: 0 .. MaxFd-1.
MaxFd == 2
\* Heap blocks g_new0 can return for a smbfs_file_handler_data_t.
MaxBlocks == 2
\* Remote files (paths) and the largest size, in bytes, a remote file takes.
NumPaths == 2
MaxFile == 2
\* The largest count a caller passes to read or write.
MaxCount == 2
\* The largest position a read may leave in a handler.
MaxPos == 3
\* Failed closes counted per open (history only).
MaxFail == 1
\* The largest offset, in absolute value, a caller passes to lseek.
MaxSeek == 1

\* ------------------------------------------------------------- vocabulary
\* The null pointer; heap blocks are 1 .. MaxBlocks.
NULL == 0

Handles == 1..NumHandles
Fds == 0..(MaxFd - 1)
Blocks == 1..MaxBlocks
Paths == 1..NumPaths
Bytes == {0, 1}

\* What a failing primitive may return: the interfaces are "..._or_negative".
Negatives == {-1, -2}

\* errno values the client leaves behind: EIO; EBADF; EINVAL; ENOENT.
IoErrnos == {5}
BadFdErrno == {9}
SeekErrnos == {22}
OpenErrnos == {2}
\* What free() may leave in errno (ISO C 7.5p3: a library function may set
\* errno to a nonzero value whether or not it fails): unchanged, or ENOMEM.
FreeErrnos == {12}

Min(a, b) == IF a <= b THEN a ELSE b
Max(a, b) == IF a >= b THEN a ELSE b

VARIABLES
    fh,      \* fh[h]: the file handler h, [pos, data]
    heap,    \* heap[b]: the block b, [st, handle, frees]
    srv,     \* srv[n]: the client's numeric handle n, [open, path, off]
    file,    \* file[p]: the bytes of the remote file p
    errno,   \* the ambient error code
    last,    \* the call that ran last: its arguments, result and error
    hist     \* hist[h]: history of h since its open (not program state)

vars == <<fh, heap, srv, file, errno, last, hist>>

\* ------------------------------------------------------------------ GError
\* *error after the call: unset, or set by g_set_error (error, MC_ERROR, code, msg).
NoError == [set |-> FALSE, code |-> 0, msg |-> ""]
g_set_error(code, msg) == [set |-> TRUE, code |-> code, msg |-> msg]

\* ------------------------------------------------------- protocol client
\* Each primitive yields the set of outcomes the client may produce:
\* [rc, errno, srv, file] (and buf for a read). errno is what the primitive
\* leaves in the ambient error code, given that the caller set it to 0.
ClosedFd == [open |-> FALSE, path |-> 0, off |-> 0]

IsOpen(n) == n \in Fds /\ srv[n].open

Fail(codes) ==
    { [rc |-> r, errno |-> e, srv |-> srv, file |-> file, buf |-> <<>>] :
        r \in Negatives, e \in codes }

\* The new numeric handle is the lowest one not in use.
smbc_open(path) ==
    { [rc |-> n, errno |-> 0,
       srv |-> [srv EXCEPT ![n] = [open |-> TRUE, path |-> path, off |-> 0]],
       file |-> file, buf |-> <<>>] :
         n \in {m \in Fds : ~srv[m].open /\ \A k \in 0..(m - 1) : srv[k].open} }
    \cup Fail(OpenErrnos)

smbc_read(n, count) ==
    IF ~IsOpen(n) THEN Fail(BadFdErrno)
    ELSE LET f == file[srv[n].path]
             avail == Min(count, Max(0, Len(f) - srv[n].off))
             sizes == IF avail = 0 THEN {0} ELSE 1..avail
         IN { [rc |-> k, errno |-> 0,
               srv |-> [srv EXCEPT ![n].off = @ + k],
               file |-> file,
               buf |-> SubSeq(f, srv[n].off + 1, srv[n].off + k)] : k \in sizes }
            \cup Fail(IoErrnos)

\* The file f with the first k bytes of buf written at offset off (a hole
\* before off is filled with zero bytes).
Overwrite(f, off, buf, k) ==
    [i \in 1..Max(Len(f), off + k) |->
        IF i > off /\ i <= off + k THEN buf[i - off]
        ELSE IF i <= Len(f) THEN f[i] ELSE 0]

smbc_write(n, buf) ==
    IF ~IsOpen(n) THEN Fail(BadFdErrno)
    ELSE LET room == Min(Len(buf), MaxFile - srv[n].off)
             sizes == IF Len(buf) = 0 THEN {0} ELSE 1..room
         IN { [rc |-> k, errno |-> 0,
               srv |-> [srv EXCEPT ![n].off = @ + k],
               file |-> [file EXCEPT ![srv[n].path] =
                            Overwrite(@, srv[n].off, buf, k)],
               buf |-> <<>>] : k \in sizes }
            \cup Fail(IoErrnos)

SeekTarget(n, offset, whence) ==
    CASE whence = "SEEK_SET" -> offset
      [] whence = "SEEK_CUR" -> srv[n].off + offset
      [] whence = "SEEK_END" -> Len(file[srv[n].path]) + offset

smbc_lseek(n, offset, whence) ==
    IF ~IsOpen(n) THEN Fail(BadFdErrno)
    ELSE LET t == SeekTarget(n, offset, whence)
         IN IF t \in 0..MaxFile
            THEN { [rc |-> t, errno |-> 0,
                    srv |-> [srv EXCEPT ![n].off = t],
                    file |-> file, buf |-> <<>>] } \cup Fail(IoErrnos)
            ELSE Fail(SeekErrnos)

smbc_fstat(n) ==
    IF ~IsOpen(n) THEN Fail(BadFdErrno)
    ELSE { [rc |-> 0, errno |-> 0, srv |-> srv, file |-> file,
            buf |-> <<Len(file[srv[n].path])>>] } \cup Fail(IoErrnos)

smbc_close(n) ==
    IF ~IsOpen(n) THEN Fail(BadFdErrno)
    ELSE { [rc |-> 0, errno |-> 0,
            srv |-> [srv EXCEPT ![n] = ClosedFd],
            file |-> file, buf |-> <<>>] } \cup Fail(IoErrnos)

\* ------------------------------------------------------------------ memory
\* Variant: one static block shared by every open, not one per open.
g_new0_shared == {1}

\* The block g_new0 returns: the lowest block that is not allocated now (a
\* block released by g_free is handed out again).
g_new0 ==
    {b \in Blocks : heap[b].st # "live"
                      /\ \A c \in 1..(b - 1) : heap[c].st = "live"}

\* g_free (b): the block is released and its bytes are no longer the
\* program's (handle_of reads them as any int); frees counts the g_free calls
\* the block has received since g_new0 returned it (2 is a double free).
g_free(b) == [heap EXCEPT ![b] = [st |-> "freed", handle |-> 0,
                                  frees |-> heap[b].frees + 1]]

\* errno after a g_free, given errno before it.
g_free_errno(e) == {e} \cup FreeErrnos

\* Variant: the numeric handle 0 passed whatever the data holds.
handle_of_static(d) == {0}

\* file_handler_data->handle, read through the pointer d: the stored handle
\* while the block is allocated; once it has been released the read is of
\* freed memory and yields any int (any numeric handle, or -1 for the rest).
handle_of(d) == IF heap[d].st = "live" THEN {heap[d].handle} ELSE Fds \cup {-1}

\* ------------------------------------------------------------- the calls
NoCall ==
    [op |-> "none", h |-> NULL, rc |-> 0, err |-> NoError, prim |-> 0,
     fd |-> -1, prc |-> 0, perr |-> 0, pos0 |-> 0, data0 |-> NULL,
     arg |-> 0, whence |-> "", buf |-> <<>>, freed |-> NULL, fresh |-> FALSE,
     start |-> "", live0 |-> FALSE]

\* hist[h], kept for the properties only: live, the handler's open succeeded
\* and no close of it has since; fd, what smbc_open returned to that open;
\* only, every call on it since was a successful read, and rsum, the bytes
\* those reads returned; clean, no primitive has failed on it since;
\* cfail, its failed closes; ro, every call on it since was a read or an
\* lseek whose primitive succeeded; start, "open" when no call followed the
\* open and "seek" when ro and the last call was lseek (0, SEEK_SET); step, how
\* far the calls since the open follow open, write of n bytes in full,
\* lseek (0, SEEK_SET), read of n bytes in full, close (1 to 5, else 0).
NoHist ==
    [live |-> FALSE, fd |-> -1, only |-> FALSE, rsum |-> 0, clean |-> FALSE,
     cfail |-> 0, ro |-> FALSE, start |-> "", step |-> 0, n |-> 0]

PosOf(p) == IF p = NULL THEN 0 ELSE fh[p].pos
DataOf(p) == IF p = NULL THEN NULL ELSE fh[p].data

\* hist[p] after a call on p that is no read and whose primitive returned rc.
After(p, rc) ==
    [hist[p] EXCEPT !.only = FALSE, !.rsum = 0, !.clean = @ /\ rc >= 0,
                    !.ro = FALSE, !.start = "", !.step = 0, !.n = 0]

\* file_handler == NULL || file_handler->data == NULL
no_handler_data(p) == p = NULL \/ fh[p].data = NULL

\* Variant: the contract error built like a protocol error, from errno.
no_handler_error_errno(msg) == g_set_error(errno, msg)

\* g_set_error (error, MC_ERROR, -1, _("smbfs: No file handler data ..."))
no_handler_error(msg) == g_set_error(-1, msg)

\* The early return of read, close, stat, write and lseek.
ContractError(op, p, msg) ==
    /\ last' = [NoCall EXCEPT !.op = op, !.h = p, !.rc = -1,
                              !.err = no_handler_error(msg),
                              !.pos0 = PosOf(p), !.data0 = DataOf(p)]
    /\ UNCHANGED <<fh, heap, srv, file, errno, hist>>

\* Variant: the failure test of lseek (rc == -1) used for the other calls.
rc_failed_sentinel(rc) == rc = -1

\* if (rc < 0) g_set_error (error, MC_ERROR, errno, "%s", smbfs_strerror (errno));
rc_failed(rc) == rc < 0
strerror_error(e) == g_set_error(e, "smbfs_strerror")

\* The record of a call that reached its primitive.
Called(op, p, n, o, err) ==
    [NoCall EXCEPT !.op = op, !.h = p, !.rc = o.rc, !.err = err, !.prim = 1,
                   !.fd = n, !.prc = o.rc, !.perr = o.errno,
                   !.pos0 = fh[p].pos, !.data0 = fh[p].data,
                   !.fresh = hist[p].only, !.start = hist[p].start,
                   !.live0 = hist[p].live]

\* ------------------------------------------------------------------- open
\* if (handle >= 0)
open_ok(handle) == handle >= 0

\* smbfs_file_open, with the VFS layer's use of it: the new file handler h
\* starts at position 0 and takes the returned pointer as its data.
smbfs_file_open(h, path) ==
    /\ fh[h].data = NULL
    /\ g_new0 # {}
    /\ \E o \in smbc_open(path) :
       \E e \in g_free_errno(o.errno) :
       \E b \in (IF open_ok(o.rc) THEN g_new0 ELSE {NULL}) :
          /\ errno' = e
          /\ srv' = o.srv
          /\ file' = o.file
          /\ heap' = IF b # NULL
                     THEN [heap EXCEPT ![b] = [st |-> "live", handle |-> o.rc,
                                               frees |-> 0]]
                     ELSE heap
          /\ fh' = [fh EXCEPT ![h] = [pos |-> 0, data |-> b]]
          /\ last' = [NoCall EXCEPT !.op = "open", !.h = h, !.rc = b,
                         !.err = IF open_ok(o.rc) THEN NoError
                                 ELSE strerror_error(e),
                         !.prim = 1, !.prc = o.rc, !.perr = o.errno,
                         !.pos0 = fh[h].pos, !.arg = path]
          /\ hist' = [hist EXCEPT ![h] =
                        IF b # NULL
                        THEN [NoHist EXCEPT !.live = TRUE, !.fd = o.rc,
                                            !.only = TRUE, !.clean = TRUE,
                                            !.ro = TRUE, !.start = "open",
                                            !.step = 1]
                        ELSE NoHist]

\* ------------------------------------------------------------------- read
\* Variant: the position assigned, not advanced (pos = rc).
read_pos_assign(pos, rc) == IF rc < 0 THEN pos ELSE rc

\* Variant: the position advanced whatever the result (pos += rc).
read_pos_always(pos, rc) == pos + rc

\* Variant: read leaving the position alone, as write does.
read_pos_none(pos, rc) == pos

\* if (rc < 0) ... else file_handler->pos += rc;
read_pos(pos, rc) == IF rc_failed(rc) THEN pos ELSE pos + rc

smbfs_file_read(p, count) ==
    IF no_handler_data(p)
    THEN ContractError("read", p,
            "smbfs: No file handler data present for reading file")
    ELSE \E n \in handle_of(fh[p].data) :
         \E o \in smbc_read(n, count) :
            /\ read_pos(fh[p].pos, o.rc) <= MaxPos
            /\ errno' = o.errno
            /\ srv' = o.srv
            /\ file' = o.file
            /\ heap' = heap
            /\ fh' = [fh EXCEPT ![p].pos = read_pos(@, o.rc)]
            /\ last' = [Called("read", p, n, o,
                               IF rc_failed(o.rc) THEN strerror_error(o.errno)
                               ELSE NoError)
                          EXCEPT !.arg = count, !.buf = o.buf]
            /\ hist' = [hist EXCEPT
                          ![p].only = @ /\ o.rc >= 0,
                          ![p].clean = @ /\ o.rc >= 0,
                          ![p].rsum = IF hist[p].only /\ o.rc >= 0
                                      THEN @ + o.rc ELSE 0,
                          ![p].ro = @ /\ o.rc >= 0,
                          ![p].start = "",
                          ![p].step = IF hist[p].step = 3 /\ count = hist[p].n
                                         /\ o.rc = count
                                      THEN 4 ELSE 0,
                          ![p].n = IF hist[p].step = 3 /\ count = hist[p].n
                                      /\ o.rc = count
                                   THEN @ ELSE 0]

\* ------------------------------------------------------------------ close
\* Variant: the data released whether or not smbc_close succeeded.
close_frees_always(rc) == TRUE

\* if (rc < 0) ... else g_free (file_handler_data);
close_frees(rc) == ~rc_failed(rc)

smbfs_file_close(p) ==
    IF no_handler_data(p)
    THEN ContractError("close", p,
            "smbfs: No file handler data present for closing file")
    ELSE \E n \in handle_of(fh[p].data) :
         \E o \in smbc_close(n) :
         \E e \in (IF close_frees(o.rc) THEN g_free_errno(o.errno)
                   ELSE {o.errno}) :
            /\ errno' = e
            /\ srv' = o.srv
            /\ file' = o.file
            /\ heap' = IF close_frees(o.rc) THEN g_free(fh[p].data) ELSE heap
            /\ fh' = fh
            /\ last' = [Called("close", p, n, o,
                               IF rc_failed(o.rc) THEN strerror_error(o.errno)
                               ELSE NoError)
                          EXCEPT !.freed = IF close_frees(o.rc)
                                           THEN fh[p].data ELSE NULL]
            /\ hist' = [hist EXCEPT ![p] =
                          [After(p, o.rc) EXCEPT
                             !.live = @ /\ o.rc < 0,
                             !.step = IF hist[p].step = 4 /\ o.rc >= 0
                                      THEN 5 ELSE 0,
                             !.n = IF hist[p].step = 4 /\ o.rc >= 0
                                   THEN hist[p].n ELSE 0,
                             !.cfail = IF o.rc < 0
                                       THEN Min(@ + 1, MaxFail) ELSE @]]

\* ------------------------------------------------------------------- stat
smbfs_file_stat(p) ==
    IF no_handler_data(p)
    THEN ContractError("stat", p,
            "smbfs: No file handler data present for fstat file")
    ELSE \E n \in handle_of(fh[p].data) :
         \E o \in smbc_fstat(n) :
            /\ errno' = o.errno
            /\ srv' = o.srv
            /\ file' = o.file
            /\ heap' = heap
            /\ fh' = fh
            /\ last' = [Called("stat", p, n, o,
                               IF rc_failed(o.rc) THEN strerror_error(o.errno)
                               ELSE NoError)
                          EXCEPT !.arg = 0]
            /\ hist' = [hist EXCEPT ![p] = After(p, o.rc)]

\* ------------------------------------------------------------------ write
\* Variant: write advancing the position as read does.
write_pos_advance(pos, rc) == IF rc < 0 THEN pos ELSE pos + rc

\* if (rc < 0) g_set_error (...);  -- file_handler->pos is not touched
write_pos(pos, rc) == pos

smbfs_file_write(p, buffer) ==
    IF no_handler_data(p)
    THEN ContractError("write", p,
            "smbfs: No file handler data present for fstat file")
    ELSE \E n \in handle_of(fh[p].data) :
         \E o \in smbc_write(n, buffer) :
            /\ errno' = o.errno
            /\ srv' = o.srv
            /\ file' = o.file
            /\ heap' = heap
            /\ fh' = [fh EXCEPT ![p].pos = write_pos(@, o.rc)]
            /\ last' = [Called("write", p, n, o,
                               IF rc_failed(o.rc) THEN strerror_error(o.errno)
                               ELSE NoError)
                          EXCEPT !.arg = Len(buffer)]
            /\ hist' = [hist EXCEPT ![p] =
                          IF hist[p].step = 1 /\ Len(buffer) > 0
                             /\ o.rc = Len(buffer)
                          THEN [After(p, o.rc) EXCEPT !.step = 2, !.n = o.rc]
                          ELSE After(p, o.rc)]

\* ------------------------------------------------------------------ lseek
\* if (rc == -1) g_set_error (...); else file_handler->pos = rc;
lseek_failed(rc) == rc = -1

\* Variant: the returned offset added to the position.
lseek_pos_relative(pos, rc) == IF rc = -1 THEN pos ELSE pos + rc

\* Variant: lseek returning the offset without storing it.
lseek_pos_keep(pos, rc) == pos

lseek_pos(pos, rc) == IF lseek_failed(rc) THEN pos ELSE rc

smbfs_file_lseek(p, offset, whence) ==
    IF no_handler_data(p)
    THEN ContractError("lseek", p,
            "smbfs: No file handler data present for fstat file")
    ELSE \E n \in handle_of(fh[p].data) :
         \E o \in smbc_lseek(n, offset, whence) :
            /\ errno' = o.errno
            /\ srv' = o.srv
            /\ file' = o.file
            /\ heap' = heap
            /\ fh' = [fh EXCEPT ![p].pos = lseek_pos(@, o.rc)]
            /\ last' = [Called("lseek", p, n, o,
                               IF lseek_failed(o.rc)
                               THEN strerror_error(o.errno) ELSE NoError)
                          EXCEPT !.arg = offset, !.whence = whence]
            /\ hist' = [hist EXCEPT ![p] =
                          LET zero == offset = 0 /\ whence = "SEEK_SET"
                                      /\ o.rc >= 0
                              ro == hist[p].ro /\ o.rc >= 0
                              on == hist[p].step = 2 /\ zero
                          IN [After(p, o.rc) EXCEPT
                                !.ro = ro,
                                !.start = IF ro /\ zero THEN "seek" ELSE "",
                                !.step = IF on THEN 3 ELSE 0,
                                !.n = IF on THEN hist[p].n ELSE 0]]

\* ------------------------------------------------------------ the VFS layer
\* The handler's data points to a block its own successful close released.
Dangling(h) == fh[h].data # NULL /\ ~hist[h].live

\* After a successful close the VFS layer drops the file handler; the slot h
\* then stands for the next handler it creates (data NULL until its open).
vfs_release(h) ==
    /\ Dangling(h)
    /\ fh' = [fh EXCEPT ![h].data = NULL]
    /\ hist' = [hist EXCEPT ![h] = NoHist]
    /\ last' = [NoCall EXCEPT !.op = "release", !.h = h, !.pos0 = fh[h].pos]
    /\ UNCHANGED <<heap, srv, file, errno>>

\* ---------------------------------------------------------- specifications
Init ==
    /\ fh = [h \in Handles |-> [pos |-> 0, data |-> NULL]]
    /\ heap = [b \in Blocks |-> [st |-> "none", handle |-> 0, frees |-> 0]]
    /\ srv = [n \in Fds |-> ClosedFd]
    /\ file = [p \in Paths |-> <<>>]
    /\ errno = 0
    /\ last = NoCall
    /\ hist = [h \in Handles |-> NoHist]

\* What callers write: up to MaxCount bytes, each 1 (a 0 in a remote file is
\* a byte nobody wrote).
Buffers == UNION { [1..k -> {1}] : k \in 0..MaxCount }
Offsets == (0 - MaxSeek)..MaxSeek
Whences == {"SEEK_SET", "SEEK_CUR", "SEEK_END"}

\* A caller that never passes a handler whose data its close has released.
WellBehaved(p) == IF p = NULL THEN TRUE ELSE ~Dangling(p)

\* One file handler on one remote file, used by a well-behaved caller.
Solo == {1}

Next ==
    \/ \E h \in Solo : smbfs_file_open(h, 1)
    \/ \E p \in Solo \cup {NULL}, c \in 0..MaxCount :
          WellBehaved(p) /\ smbfs_file_read(p, c)
    \/ \E p \in Solo \cup {NULL}, b \in Buffers :
          WellBehaved(p) /\ smbfs_file_write(p, b)
    \/ \E p \in Solo \cup {NULL}, off \in Offsets, w \in Whences :
          WellBehaved(p) /\ smbfs_file_lseek(p, off, w)
    \/ \E p \in Solo \cup {NULL} : WellBehaved(p) /\ smbfs_file_stat(p)
    \/ \E p \in Solo \cup {NULL} : WellBehaved(p) /\ smbfs_file_close(p)
    \/ \E h \in Solo : vfs_release(h)

Spec == Init /\ [][Next]_vars

\* A caller that may go on calling after a successful close (the VFS layer
\* does not step in), beside a second file handler that is opened and closed.
NextAny ==
    \/ \E h \in Handles : smbfs_file_open(h, h)
    \/ \E p \in Solo : smbfs_file_read(p, 1)
    \/ \E p \in Solo : smbfs_file_write(p, <<1>>)
    \/ \E p \in Solo : smbfs_file_lseek(p, 0, "SEEK_SET")
    \/ \E p \in Solo : smbfs_file_stat(p)
    \/ \E p \in Handles : smbfs_file_close(p)

SpecAny == Init /\ [][NextAny]_vars

\* Two file handlers, each on its own remote file, used by a well-behaved
\* caller whose calls on the two interleave in any order; the second one is
\* opened, read and closed, on a remote file that has MaxFile bytes.
Pair == {1, 2}

NextPair ==
    \/ \E h \in Pair : smbfs_file_open(h, h)
    \/ \E p \in Pair : WellBehaved(p) /\ smbfs_file_read(p, 1)
    \/ \E p \in Solo : WellBehaved(p) /\ smbfs_file_write(p, <<1>>)
    \/ \E p \in Solo : WellBehaved(p) /\ smbfs_file_lseek(p, 0, "SEEK_SET")
    \/ \E p \in Solo : WellBehaved(p) /\ smbfs_file_stat(p)
    \/ \E p \in Pair : WellBehaved(p) /\ smbfs_file_close(p)

InitPair ==
    /\ fh = [h \in Handles |-> [pos |-> 0, data |-> NULL]]
    /\ heap = [b \in Blocks |-> [st |-> "none", handle |-> 0, frees |-> 0]]
    /\ srv = [n \in Fds |-> ClosedFd]
    /\ file = [p \in Paths |-> IF p = 2 THEN [i \in 1..MaxFile |-> i % 2]
                                ELSE <<>>]
    /\ errno = 0
    /\ last = NoCall
    /\ hist = [h \in Handles |-> NoHist]

SpecPair == InitPair /\ [][NextPair]_vars

\* ------------------------------------------------------------- properties
HandleOps == {"read", "write", "lseek", "stat", "close"}

\* C1: the smbfs_file_handler_data_t a successful open created is released
\* exactly once: only inside a close whose smbc_close returned success, and
\* no block ever receives a second g_free, also when close is called again
\* after an earlier close.
C1_ReleasedExactlyOnce ==
    /\ \A b \in Blocks : heap[b].frees <= 1
    /\ last.freed # NULL => last.op = "close" /\ last.prc >= 0

\* C2: read, write, lseek, stat and close on a NULL handler, or on a handler
\* whose data is NULL, return -1 with an error of code -1, call no smbc_*
\* primitive and leave the handler's position (and data) as they were.
C2_NoHandlerData ==
    (last.op \in HandleOps /\ (last.h = NULL \/ last.data0 = NULL)) =>
        /\ last.rc = -1
        /\ last.err.set /\ last.err.code = -1
        /\ last.prim = 0
        /\ last.h # NULL =>
              fh[last.h].pos = last.pos0 /\ fh[last.h].data = NULL

\* A handler that was read from, closed and dropped is passed to lseek.
C2_Witness ==
    /\ last.op = "lseek" /\ last.h # NULL /\ last.data0 = NULL
    /\ last.pos0 > 0 /\ last.prim = 0

\* C3: a close whose smbc_close fails returns the negative result with an
\* error carrying errno and releases nothing: the data still wraps the
\* handle smbc_open returned. Every close, the first or a retry, passes that
\* handle to smbc_close; the one that succeeds returns success with no error
\* and releases the data, its only release.
C3_CloseRetry ==
    (last.op = "close" /\ last.prim = 1) =>
        /\ last.fd = hist[last.h].fd
        /\ last.rc = last.prc
        /\ last.prc < 0 =>
              /\ last.err.set /\ last.err.code = last.perr
              /\ last.freed = NULL
              /\ fh[last.h].data = last.data0
              /\ heap[last.data0] =
                    [st |-> "live", handle |-> hist[last.h].fd, frees |-> 0]
        /\ last.prc >= 0 =>
              /\ last.rc = 0 /\ ~last.err.set
              /\ last.freed = last.data0
              /\ heap[last.data0].st = "freed"
              /\ heap[last.data0].frees = 1

\* A close succeeds after MaxFail (or more) failed closes of the same open.
C3_Witness ==
    /\ last.op = "close" /\ last.prim = 1 /\ last.prc >= 0
    /\ hist[last.h].cfail = MaxFail
    /\ heap[last.data0].frees = 1

\* C4: open returns non-NULL data and no error exactly when smbc_open
\* returned a handle >= 0, and the data wraps that handle; when smbc_open
\* returned a negative value open returns NULL and an error whose code is the
\* errno smbc_open left.
C4_OpenResult ==
    last.op = "open" =>
        IF last.prc >= 0
        THEN /\ last.rc # NULL /\ ~last.err.set
             /\ heap[last.rc].st = "live" /\ heap[last.rc].handle = last.prc
        ELSE /\ last.rc = NULL /\ last.err.set
             /\ last.err.code = last.perr

C6_ReadFailure ==
    (last.op = "read" /\ last.prim = 1 /\ last.prc < 0) =>
        /\ last.rc = last.prc
        /\ last.err.set /\ last.err.code = last.perr
        /\ fh[last.h].pos = last.pos0
        /\ fh[last.h].data = last.data0
        /\ heap[last.data0].st = "live"
        /\ heap[last.data0].handle = last.fd

\* A read fails on a handler whose position is past 0.
C6_Witness ==
    last.op = "read" /\ last.prim = 1 /\ last.prc < 0 /\ last.pos0 > 0

C9_SeekFailure ==
    (last.op = "lseek" /\ last.prim = 1 /\ last.prc < 0) =>
        /\ last.err.set /\ last.err.code = last.perr
        /\ fh[last.h].pos = last.pos0

\* C10: on an open handler on which no call has failed, the position is the
\* offset at which the client performs the next read or write on its handle.
C10_PositionAuthoritative ==
    \A h \in Handles :
        (hist[h].live /\ hist[h].clean) => fh[h].pos = srv[hist[h].fd].off

\* C11: stat changes neither the position nor the data it was given, nor the
\* block the data points to, whether smbc_fstat succeeds or fails; it returns
\* the result of smbc_fstat, with an error carrying errno when that result is
\* negative and with no error otherwise.
C11_StatFrame ==
    (last.op = "stat" /\ last.prim = 1) =>
        /\ fh[last.h].pos = last.pos0
        /\ fh[last.h].data = last.data0
        /\ heap[last.data0] =
              [st |-> "live", handle |-> hist[last.h].fd, frees |-> 0]
        /\ last.rc = last.prc
        /\ last.prc < 0 => last.err.set /\ last.err.code = last.perr
        /\ last.prc >= 0 => last.rc = 0 /\ ~last.err.set

\* smbc_fstat fails with a result other than -1 on a handler past position 0.
C11_Witness ==
    /\ last.op = "stat" /\ last.prim = 1 /\ last.prc < 0 /\ last.prc # -1
    /\ last.pos0 > 0

\* C12: every call reaches a client primitive at most once: once when the
\* handler and its data are present (always once for open), never on a
\* contract error; every negative result of the primitive comes back to the
\* caller with an error set, the handler calls returning that result itself.
C12_PrimitiveOnce ==
    last.op \in HandleOps \cup {"open"} =>
        /\ last.prim \in {0, 1}
        /\ last.op = "open" => last.prim = 1
        /\ last.op \in HandleOps =>
              (last.prim = 1 <=> (last.h # NULL /\ last.data0 # NULL))
        /\ (last.prim = 1 /\ last.prc < 0) =>
              /\ last.err.set
              /\ last.op \in HandleOps => last.rc = last.prc

\* C13: the code of an error reported after a primitive failed is the errno
\* value that primitive left, in each of the six calls.
C13_ErrnoOfPrimitive ==
    (last.prim = 1 /\ last.err.set) => last.err.code = last.perr

C15_SeekOpenRoundTrip ==
    (last.op = "read" /\ last.prim = 1 /\ last.prc >= 0
       /\ last.start \in {"open", "seek"}) =>
        /\ last.rc = last.prc /\ last.rc <= last.arg /\ ~last.err.set
        /\ last.buf = SubSeq(file[srv[last.fd].path], 1, last.rc)
        /\ fh[last.h].pos = last.rc

\* A read after lseek (0, SEEK_SET) returns a whole file that has a hole.
C15_Witness ==
    /\ last.op = "read" /\ last.start = "seek" /\ last.prc = MaxFile
    /\ last.buf[1] = 0 /\ fh[last.h].pos = MaxFile

\* The part of the state that belongs to handler h: the handler, and while it
\* is open the block its data points to and the client's state of its numeric
\* handle, its file.
OwnBlock(h) == IF hist[h].live THEN <<heap[fh[h].data]>> ELSE <<>>
OwnFd(h) == IF hist[h].live THEN <<srv[hist[h].fd]>> ELSE <<>>
Own(h) == <<fh[h], OwnBlock(h), OwnFd(h), file[h], hist[h]>>

\* C16: with two file handlers in use, in every interleaving of their calls, a
\* call on one leaves the other's position, data, data block and client-side
\* state as they were, and works on its own state only: it passes its own
\* numeric handle and its position moves by its own primitive's result.
C16_Independent ==
    [][\A h \in Pair :
          /\ last'.h # h => Own(h)' = Own(h)
          /\ (last'.h = h /\ last'.op \in HandleOps /\ last'.prim = 1) =>
                /\ last'.fd = hist[h].fd
                /\ last'.pos0 = fh[h].pos /\ last'.data0 = fh[h].data
                /\ last'.rc = last'.prc
                /\ fh'[h].data = fh[h].data
                /\ fh'[h].pos =
                      CASE last'.op = "read" -> read_pos(fh[h].pos, last'.prc)
                        [] last'.op = "lseek" -> lseek_pos(fh[h].pos, last'.prc)
                        [] OTHER -> fh[h].pos]_vars

\* Both handlers are open on distinct numeric handles and blocks, at different
\* positions, and the last call moved the first one.
C16_Witness ==
    /\ hist[1].live /\ hist[2].live
    /\ hist[1].fd # hist[2].fd /\ fh[1].data # fh[2].data
    /\ fh[2].pos = MaxFile /\ fh[1].pos = 1
    /\ last.op = "read" /\ last.h = 1 /\ last.prc = 1

\* C17: a data block comes into being only in a successful open and goes only
\* in a successful close; in between it holds the numeric handle smbc_open
\* returned, unchanged, and read, write, lseek, stat and close pass exactly
\* that handle to their primitive.
C17_DataImmutable ==
    [][/\ \A h \in Pair :
             hist'[h].live =>
                /\ fh'[h].data # NULL
                /\ heap'[fh'[h].data] =
                      [st |-> "live", handle |-> hist'[h].fd, frees |-> 0]
       /\ (last'.op \in HandleOps /\ last'.prim = 1) =>
             /\ hist[last'.h].live
             /\ last'.fd = hist[last'.h].fd
       /\ \A b \in Blocks :
             heap'[b] # heap[b] =>
                \/ /\ last'.op = "open" /\ last'.prc >= 0 /\ last'.rc = b
                   /\ heap[b].st # "live" /\ heap'[b].st = "live"
                   /\ heap'[b].handle = last'.prc
                \/ /\ last'.op = "close" /\ last'.prc >= 0 /\ last'.freed = b
                   /\ heap[b].st = "live" /\ heap'[b].st = "freed"]_vars

\* A close that failed on the second numeric handle, after reads, leaves the
\* block holding that handle.
C17_Witness ==
    /\ last.op = "close" /\ last.prim = 1 /\ last.prc < 0 /\ last.fd = 1
    /\ last.pos0 > 0 /\ hist[last.h].live
    /\ heap[last.data0] = [st |-> "live", handle |-> 1, frees |-> 0]

\* C18: a read, write, lseek, stat or close on a handler whose data a
\* successful close has released (and that the VFS layer has not touched
\* since) returns -1 with an error of code -1, calls no primitive and does not
\* read or release the block again.
C18_ClosedRejected ==
    (last.op \in HandleOps /\ last.h # NULL /\ ~last.live0) =>
        /\ last.prim = 0
        /\ last.rc = -1 /\ last.err.set /\ last.err.code = -1
        /\ last.freed = NULL

\* C19: the position of every file handler is non-negative in every reachable
\* state, whatever the primitives return.
C19_PositionNonNegative == \A h \in Handles : fh[h].pos >= 0

====
